---- MODULE Spec2Model ----
(***************************************************************************)
(* Model of src/backup_starred_repos.py (class GitHubStarredBackup): the   *)
(* backup reconciliation engine.  One run is __init__ followed by          *)
(* run_backup; the R2 bucket, the wall clock and the md5 function outlive  *)
(* a run.  Strings are TLA+ strings and are handled character by           *)
(* character, as the Python code handles them.                             *)
(***************************************************************************)
EXTENDS Integers, Sequences, FiniteSets, TLC

VARIABLES
  pc,             \* position in run_backup / backup_repository
  now,            \* wall clock, in ticks (datetime.now())
  md5,            \* hashlib.md5(url).hexdigest()[:8], a fixed function of the url
  bucket,         \* R2 bucket: object key -> LastModified
  bucket0,        \* the bucket as the run found it
  fetch,          \* what happened inside get_starred_repos (until it has returned)
  catalog,        \* the list get_starred_repos returned
  dry_run,        \* argument of run_backup
  max_repos,      \* argument of run_backup: <<>> for None, <<n>> for the integer n
  starred_repos,  \* local of run_backup: the (limited) catalog
  i,              \* loop index of run_backup (1-based, enumerate(..., 1))
  repo_id,        \* local of backup_repository
  existing_check, \* local of backup_repository
  manifest,       \* self.manifest
  success_count,  \* local of run_backup
  failed_repos,   \* local of run_backup
  tempFiles,      \* paths existing under the TemporaryDirectory
  ops,            \* calls issued to git, zipfile and R2 by the current
                  \* backup_repository / save_manifest call, in order
  idCalls         \* calls of generate_repo_id so far: arguments, clock, result

vars == <<pc, now, md5, bucket, bucket0, fetch, catalog, dry_run, max_repos, starred_repos, i,
          repo_id, existing_check, manifest, success_count, failed_repos,
          tempFiles, ops, idCalls>>

-----------------------------------------------------------------------------
(* Bounds of the model *)

MaxRepos == 2       \* length of the account's starred list
MaxDay == 1         \* last calendar day of the clock (the first is day 0)
TicksPerDay == 2    \* clock ticks in a calendar day
MaxLimit == 1       \* largest --max-repos value tried
PerPage == 1        \* repositories on a page of the starred listing (100 in the code)
MaxCalls == 3       \* calls of generate_repo_id recorded by SpecId

None == "None"      \* Python's None

-----------------------------------------------------------------------------
(* Strings *)

Char(s, k) == SubSeq(s, k, k)

\* str.endswith
EndsWith(s, suffix) ==
  /\ Len(s) >= Len(suffix)
  /\ SubSeq(s, Len(s) - Len(suffix) + 1, Len(s)) = suffix

\* str.startswith
StartsWith(s, prefix) ==
  /\ Len(s) >= Len(prefix)
  /\ SubSeq(s, 1, Len(prefix)) = prefix

\* str.replace('/', '_')
RECURSIVE ReplaceSlash(_)
ReplaceSlash(s) ==
  IF s = "" THEN ""
  ELSE (IF Char(s, 1) = "/" THEN "_" ELSE Char(s, 1))
       \o ReplaceSlash(SubSeq(s, 2, Len(s)))

\* str.split('/')[-1]
RECURSIVE LastSegment(_)
LastSegment(s) ==
  IF \E k \in 1..Len(s) : Char(s, k) = "/"
  THEN LastSegment(SubSeq(s, (CHOOSE k \in 1..Len(s) : Char(s, k) = "/") + 1, Len(s)))
  ELSE s

Digits == <<"0", "1", "2", "3", "4", "5", "6", "7", "8", "9">>

\* zero-padded decimal of width w (strftime's %Y, %m, %d, %H, %M, %S fields)
RECURSIVE Pad(_, _)
Pad(n, w) == IF w = 0 THEN "" ELSE Pad(n \div 10, w - 1) \o Digits[(n % 10) + 1]

-----------------------------------------------------------------------------
(* Clock *)

DayOf(t) == t \div TicksPerDay
SecondOf(t) == t % TicksPerDay

\* the calendar date of a day of the model: day 0 is 2024-12-31
DateOf(d) == IF d = 0 THEN [year |-> 2024, month |-> 12, day |-> 31]
             ELSE [year |-> 2025, month |-> 1, day |-> d]

\* datetime.now().strftime('%Y%m%d')
StrftimeYmd(t) ==
  LET dt == DateOf(DayOf(t)) IN Pad(dt.year, 4) \o Pad(dt.month, 2) \o Pad(dt.day, 2)

\* datetime.now().strftime('%Y%m%d_%H%M%S')
StrftimeYmdHMS(t) == StrftimeYmd(t) \o "_" \o Pad(0, 2) \o Pad(0, 2) \o Pad(SecondOf(t), 2)

-----------------------------------------------------------------------------
(* Repository descriptors, as get_starred_repos returns them: the API's     *)
(* fields and the topics enhance_repo_metadata left (none for b/r)          *)

Descriptor(owner, name, language, topics) ==
  [name |-> name,
   owner |-> owner,
   full_name |-> owner \o "/" \o name,
   clone_url |-> "https://github.com/" \o owner \o "/" \o name \o ".git",
   language |-> language,
   topics |-> topics]

\* two repositories of the same short name under two owners, and one whose
\* short name ends with "_" plus the short name of the others
Universe ==
  { Descriptor("a", "r", "Python", <<"cli">>),
    Descriptor("b", "r", None, <<>>),
    Descriptor("a", "x_r", "Go", <<"cli", "web">>) }

Urls == { d.clone_url : d \in Universe }
Hashes == {"0a0a0a0a", "1b1b1b1b"}

NoDuplicates(seq) == \A j, k \in 1..Len(seq) : seq[j] = seq[k] => j = k

RECURSIVE SeqsUpTo(_, _)
SeqsUpTo(S, n) ==
  IF n = 0 THEN {<<>>}
  ELSE LET shorter == SeqsUpTo(S, n - 1)
       IN shorter \cup {Append(q, x) : q \in {q \in shorter : Len(q) = n - 1}, x \in S}

\* the starred lists an account can hold: full names are unique in an account
Accounts == {q \in SeqsUpTo(Universe, MaxRepos) : NoDuplicates(q)}

-----------------------------------------------------------------------------
(* Naming scheme *)

generate_backup_id(t) == "backup_" \o StrftimeYmdHMS(t)

\* an id stamped to the second, like generate_backup_id
generate_repo_id_to_the_second(repo_full_name, repo_url, t) ==
  StrftimeYmdHMS(t) \o "_" \o md5[repo_url] \o "_" \o ReplaceSlash(repo_full_name)

generate_repo_id(repo_full_name, repo_url, t) ==
  LET hash_hex == md5[repo_url]
      timestamp == StrftimeYmd(t)
      slug == ReplaceSlash(repo_full_name)
  IN timestamp \o "_" \o hash_hex \o "_" \o slug

\* the two suffixes check_existing_backup matches
CurrentSuffix(repo_full_name) == "_" \o ReplaceSlash(repo_full_name) \o ".zip"
LegacySuffix(repo_full_name) == "_" \o LastSegment(repo_full_name) \o ".zip"

IsManifestKey(key) == StartsWith(key, "manifest_backup_") /\ EndsWith(key, ".json")

-----------------------------------------------------------------------------
(* The R2 bucket: a function from object keys to LastModified *)

EmptyMap == [x \in {} |-> 0]

Put(b, key, t) == [k \in DOMAIN b \cup {key} |-> IF k = key THEN t ELSE b[k]]
Delete(b, keys) == [k \in DOMAIN b \ keys |-> b[k]]

\* objects earlier runs and other users of the bucket may have left: a legacy
\* archive of "r", the current-scheme archive of a/r made earlier on day 0, a
\* manifest of a prior run, a foreign object
ForeignKey == "notes.txt"
PreObjects ==
  [x \in {"20231201_r.zip", "20241231_0a0a0a0a_a_r.zip",
          "manifest_backup_20240101_000000.json", ForeignKey} |->
     IF x = "20231201_r.zip" THEN -2 ELSE -1]

InitialBuckets ==
  { [k \in ks \cup {ForeignKey} |-> PreObjects[k]] : ks \in SUBSET DOMAIN PreObjects }

\* md5(url).hexdigest()[:8] is some function of the url with 16^8 values: two
\* urls may collide.  The archive of a/r found in the bucket was named with it;
\* the hash of a/x_r is fixed, as no other repository shares its short name or
\* its slug
Md5Functions ==
  { h \in [Urls -> Hashes] :
      /\ h["https://github.com/a/r.git"] = "0a0a0a0a"
      /\ h["https://github.com/a/x_r.git"] = "1b1b1b1b" }

-----------------------------------------------------------------------------
(* check_existing_backup *)

\* a matcher that knows the current naming scheme only
MatchingCurrentOnly(listing, repo_full_name) ==
  { k \in DOMAIN listing : EndsWith(k, CurrentSuffix(repo_full_name)) }

\* a matcher that takes every archive of the listing for a backup of the
\* repository
MatchingAnyZip(listing, repo_full_name) ==
  { k \in DOMAIN listing : EndsWith(k, ".zip") }

\* the keys of a listing that end with either suffix
Matching(listing, repo_full_name) ==
  { k \in DOMAIN listing :
      \/ EndsWith(k, CurrentSuffix(repo_full_name))
      \/ EndsWith(k, LegacySuffix(repo_full_name)) }

\* the orders existing_backups.sort(key=last_modified, reverse=True) can give:
\* the order of equal timestamps is the order of the listing, which the code
\* does not fix
SortedMatches(listing, repo_full_name) ==
  LET keys == Matching(listing, repo_full_name)
      n == Cardinality(keys)
  IN { [j \in 1..n |-> [filename |-> f[j], last_modified |-> listing[f[j]]]] :
         f \in { g \in [1..n -> keys] :
                   /\ \A j, k \in 1..n : g[j] = g[k] => j = k
                   /\ \A j, k \in 1..n : j < k => listing[g[j]] >= listing[g[k]] } }

NotExists == [exists |-> FALSE, all |-> <<>>]

\* a check that reports the matches even though the listing raised
check_existing_backup_despite_error(listing, repo_full_name, list_ok) ==
  IF Matching(listing, repo_full_name) = {} THEN {NotExists}
  ELSE { [exists |-> TRUE, all |-> existing_backups] :
           existing_backups \in SortedMatches(listing, repo_full_name) }

\* the results check_existing_backup can return; list_ok = FALSE is the
\* except branch (list_objects_v2 raised)
check_existing_backup(listing, repo_full_name, list_ok) ==
  IF ~list_ok THEN {NotExists}
  ELSE IF Matching(listing, repo_full_name) = {} THEN {NotExists}
  ELSE { [exists |-> TRUE, all |-> existing_backups] :
           existing_backups \in SortedMatches(listing, repo_full_name) }

-----------------------------------------------------------------------------
(* The manifest *)

MapSet(f, key, v) == [k \in DOMAIN f \cup {key} |-> IF k = key THEN v ELSE f[k]]

\* d.setdefault(key, []) followed by d[key].append(v)
MapAppend(f, key, v) ==
  MapSet(f, key, Append(IF key \in DOMAIN f THEN f[key] ELSE <<>>, v))

RECURSIVE AppendToTopics(_, _, _)
AppendToTopics(by_topic, topics, rid) ==
  IF topics = <<>> THEN by_topic
  ELSE AppendToTopics(MapAppend(by_topic, Head(topics), rid), Tail(topics), rid)

NewManifest(t) ==
  [backup_id |-> generate_backup_id(t),
   total_repos |-> 0,
   by_language |-> EmptyMap,
   by_topic |-> EmptyMap,
   repositories |-> EmptyMap,
   lookup |-> EmptyMap]

\* dict.get(key, default)
Get(d, key, default) == IF key \in DOMAIN d THEN d[key] ELSE default

\* backup_info is a parameter the body never reads
add_to_manifest(m, repo, rid, status, zip_filename, backup_info, t) ==
  [m EXCEPT
     !.repositories =
        MapSet(@, rid,
               [original_name |-> repo.name,
                full_name |-> repo.full_name,
                unique_id |-> rid,
                backup_status |-> status,
                zip_filename |-> zip_filename,
                language |-> Get(repo, "language", ""),
                topics |-> Get(repo, "topics", <<>>),
                clone_url |-> Get(repo, "clone_url", ""),
                backed_up_at |-> t]),
     !.lookup = MapSet(MapSet(@, repo.name, rid), repo.full_name, rid),
     !.by_language = MapAppend(@, Get(repo, "language", "Unknown"), rid),
     !.by_topic = AppendToTopics(@, Get(repo, "topics", <<>>), rid),
     !.total_repos = @ + 1]

-----------------------------------------------------------------------------
(* Initial state: the object constructed by __init__, before run_backup *)

NoFetch == [kind |-> "none", account |-> <<>>, has_id |-> FALSE, has_name |-> FALSE,
            user_info |-> [resolved |-> "none", calls |-> <<>>]]

Init ==
  /\ pc = "new"
  /\ now = 0
  /\ md5 \in Md5Functions
  /\ bucket \in InitialBuckets
  /\ bucket0 = bucket
  /\ fetch = NoFetch
  /\ catalog = <<>>
  /\ dry_run = FALSE
  /\ max_repos = <<>>
  /\ starred_repos = <<>>
  /\ i = 0
  /\ repo_id = None
  /\ existing_check = NotExists
  /\ manifest = NewManifest(0)
  /\ success_count = 0
  /\ failed_repos = <<>>
  /\ tempFiles = {}
  /\ ops = <<>>
  /\ idCalls = {}

-----------------------------------------------------------------------------
(* get_starred_repos *)

\* the pages of the account's starred list, per_page repositories each
NumPages(account) == (Len(account) + PerPage - 1) \div PerPage

\* what the while loop has collected when request number failed_page raises
\* (0: no request raises, the empty page after the last one ends the loop)
Collected(account, failed_page) ==
  IF failed_page = 0 THEN account
  ELSE SubSeq(account, 1,
              IF (failed_page - 1) * PerPage < Len(account)
              THEN (failed_page - 1) * PerPage ELSE Len(account))

Lookup(by, ok) == [by |-> by, ok |-> ok]

\* a get_user_info without the fallback to the username
get_user_info_id_only(has_id, has_name, id_ok, name_ok) ==
  IF has_id /\ id_ok
  THEN [resolved |-> "by_id", calls |-> <<Lookup("id", TRUE)>>]
  ELSE [resolved |-> "none",
        calls |-> IF has_id THEN <<Lookup("id", FALSE)>> ELSE <<>>]

\* get_user_info: the id lookup first if an id is configured, then the
\* username lookup if a username is configured; calls are the requests made
get_user_info(has_id, has_name, id_ok, name_ok) ==
  LET by_id == IF has_id THEN <<Lookup("id", id_ok)>> ELSE <<>>
      by_username == IF has_name THEN <<Lookup("username", name_ok)>> ELSE <<>>
  IN IF has_id /\ id_ok THEN [resolved |-> "by_id", calls |-> by_id]
     ELSE IF has_name /\ name_ok
          THEN [resolved |-> "by_username", calls |-> by_id \o by_username]
          ELSE [resolved |-> "none", calls |-> by_id \o by_username]

GetStarredRepos ==
  /\ pc = "new"
  /\ \E dr \in BOOLEAN, mr \in {<<>>} \cup {<<n>> : n \in 0..MaxLimit} :
       /\ dry_run' = dr
       /\ max_repos' = mr
  /\ \E has_id, has_name, id_ok, name_ok \in BOOLEAN, account \in Accounts :
       /\ has_id \/ has_name
       /\ LET user_info == get_user_info(has_id, has_name, id_ok, name_ok)
              Fetched(kind) == [kind |-> kind, account |-> account, has_id |-> has_id,
                                has_name |-> has_name, user_info |-> user_info]
          IN IF user_info.resolved = "none"
             THEN /\ fetch' = Fetched("identity_failed")
                  /\ catalog' = <<>>
             ELSE \E failed_page \in 0..(NumPages(account) + 1) :
                    /\ fetch' = Fetched(IF failed_page = 0 THEN "complete"
                                        ELSE "page_error")
                    /\ catalog' = Collected(account, failed_page)
  /\ pc' = "fetched"
  /\ UNCHANGED <<now, md5, bucket0, bucket, starred_repos, i, repo_id, existing_check,
                 manifest, success_count, failed_repos, tempFiles, ops, idCalls>>

-----------------------------------------------------------------------------
(* run_backup *)

\* if max_repos: starred_repos = starred_repos[:max_repos]
Limit(repos, mr) ==
  IF mr = <<>> \/ mr = <<0>> THEN repos
  ELSE SubSeq(repos, 1, IF mr[1] < Len(repos) THEN mr[1] ELSE Len(repos))

\* a run_backup without the early return
NothingToDoNever(repos) == FALSE

\* if not starred_repos: return
NothingToDo(repos) == repos = <<>>

\* the caller of get_starred_repos: return on an empty list, else limit the
\* list and enter the loop (max_repos is not read again: the model forgets it,
\* and it forgets how the fetch went once the loop is entered)
RunBackupStart ==
  /\ pc = "fetched"
  /\ max_repos' = <<>>
  /\ IF NothingToDo(catalog)
     THEN /\ pc' = "done"
          /\ UNCHANGED <<starred_repos, i, fetch>>
     ELSE /\ fetch' = NoFetch
          /\ starred_repos' = Limit(catalog, max_repos)
          /\ i' = 1
          /\ pc' = "loop"
  /\ UNCHANGED <<now, md5, bucket0, bucket, catalog, dry_run, repo_id,
                 existing_check, manifest, success_count, failed_repos,
                 tempFiles, ops, idCalls>>

\* midnight passes before a repository is processed (within a day the clock
\* shows only in timestamps that the run never compares)
NextDay ==
  /\ pc = "loop"
  /\ i <= Len(starred_repos)
  /\ DayOf(now) < MaxDay
  /\ now' = (DayOf(now) + 1) * TicksPerDay
  /\ UNCHANGED <<pc, md5, bucket0, bucket, fetch, catalog, dry_run, max_repos, starred_repos,
                 i, repo_id, existing_check, manifest, success_count, failed_repos,
                 tempFiles, ops, idCalls>>

\* one iteration of the loop in dry-run mode
DryRunStep ==
  /\ pc = "loop"
  /\ dry_run
  /\ i <= Len(starred_repos)
  /\ LET repo == starred_repos[i]
         rid == generate_repo_id(repo.name, repo.clone_url, now)
     IN /\ repo_id' = rid
        /\ manifest' = add_to_manifest(manifest, repo, rid, "dry_run", None, None, now)
  /\ i' = i + 1
  /\ UNCHANGED <<pc, now, md5, bucket0, bucket, fetch, catalog, dry_run, max_repos,
                 starred_repos, existing_check, success_count, failed_repos,
                 tempFiles, ops, idCalls>>

-----------------------------------------------------------------------------
(* backup_repository, step by step *)

ClonePath(repo) == repo.name
ZipName(rid) == rid \o ".zip"

Op(op, key, ok) == [op |-> op, key |-> key, ok |-> ok]

\* an order that deletes the old backups before the archive is packaged
StepAfterDeleteFirst(step) ==
  CASE step = "check" -> "clone"
    [] step = "clone" -> "delete"
    [] step = "delete" -> "zip"
    [] step = "zip" -> "upload"

\* the order of the steps of backup_repository once the existing backups are
\* known: clone, zip, delete the old backups, upload
StepAfter(step) ==
  CASE step = "check" -> "clone"
    [] step = "clone" -> "zip"
    [] step = "zip" -> "delete"
    [] step = "delete" -> "upload"

\* a loop that gives up at the first repository that fails
ReturnAbortingOnFailure(success) ==
  /\ IF success
     THEN /\ success_count' = success_count + 1
          /\ UNCHANGED failed_repos
     ELSE /\ failed_repos' = Append(failed_repos, starred_repos[i].name)
          /\ UNCHANGED success_count
  /\ i' = i + 1
  /\ pc' = IF success THEN "loop" ELSE "done"

\* a loop that counts every returned repository as backed up
ReturnCountingAllSuccess(success) ==
  /\ success_count' = success_count + 1
  /\ UNCHANGED failed_repos
  /\ i' = i + 1
  /\ pc' = "loop"

\* backup_repository returned to the loop of run_backup
ReturnToLoop(success) ==
  /\ IF success
     THEN /\ success_count' = success_count + 1
          /\ UNCHANGED failed_repos
     ELSE /\ failed_repos' = Append(failed_repos, starred_repos[i].name)
          /\ UNCHANGED success_count
  /\ i' = i + 1
  /\ pc' = "loop"

\* a backup_repository that goes back to the loop when skip_existing is set
\* and a backup exists
AfterCheckSkipping(skip_existing, check) ==
  IF skip_existing /\ check.exists THEN "loop" ELSE StepAfter("check")

\* the step after the check: both branches on skip_existing and on
\* existing_check['exists'] only log, and the clone follows
AfterCheck(skip_existing, check) ==
  IF skip_existing /\ check.exists THEN StepAfter("check")
  ELSE IF check.exists THEN StepAfter("check")
  ELSE StepAfter("check")

\* generate the id and check for existing backups
BackupRepositoryCheck ==
  /\ pc = "loop"
  /\ ~dry_run
  /\ i <= Len(starred_repos)
  /\ LET repo == starred_repos[i] IN
       /\ repo_id' = generate_repo_id(repo.full_name, repo.clone_url, now)
       /\ \E list_ok, skip_existing \in BOOLEAN :
            /\ existing_check' \in check_existing_backup(bucket, repo.full_name, list_ok)
            /\ ops' = <<Op("list", None, list_ok)>>
            /\ pc' = AfterCheck(skip_existing, existing_check')
  /\ UNCHANGED <<now, md5, bucket0, bucket, fetch, catalog, dry_run, max_repos, starred_repos,
                 i, manifest, success_count, failed_repos, tempFiles, idCalls>>

\* clone_repository: git refuses a destination that exists and is not empty
Clone ==
  /\ pc = "clone"
  /\ LET repo == starred_repos[i] IN
     \E ok \in BOOLEAN :
       /\ ok => ClonePath(repo) \notin tempFiles
       /\ ops' = Append(ops, Op("clone", repo.clone_url, ok))
       /\ IF ok
          THEN /\ tempFiles' = tempFiles \cup {ClonePath(repo)}
               /\ pc' = StepAfter("clone")
               /\ UNCHANGED <<manifest, success_count, failed_repos, i>>
          ELSE /\ manifest' = add_to_manifest(manifest, repo, repo_id, "failed_clone", None, None, now)
               /\ ReturnToLoop(FALSE)
               /\ UNCHANGED tempFiles
  /\ UNCHANGED <<now, md5, bucket0, bucket, fetch, catalog, dry_run, max_repos, starred_repos,
                 repo_id, existing_check, idCalls>>

\* create_zip_archive: a failure may leave the partly written archive behind
Zip ==
  /\ pc = "zip"
  /\ LET repo == starred_repos[i] IN
     \E ok \in BOOLEAN :
       /\ ops' = Append(ops, Op("zip", ZipName(repo_id), ok))
       /\ IF ok
          THEN /\ tempFiles' = tempFiles \cup {ZipName(repo_id)}
               /\ pc' = StepAfter("zip")
               /\ UNCHANGED <<manifest, success_count, failed_repos, i>>
          ELSE /\ \E partial \in BOOLEAN :
                    tempFiles' = IF partial THEN tempFiles \cup {ZipName(repo_id)}
                                 ELSE tempFiles
               /\ manifest' = add_to_manifest(manifest, repo, repo_id, "failed_zip", None, None, now)
               /\ ReturnToLoop(FALSE)
  /\ UNCHANGED <<now, md5, bucket0, bucket, fetch, catalog, dry_run, max_repos, starred_repos,
                 repo_id, existing_check, idCalls>>

\* a delete loop inside one try: the first call that raises ends it
DeleteOpsUntilFailure(all, failed) ==
  LET stop == IF failed \cap (1..Len(all)) = {} THEN Len(all)
              ELSE CHOOSE j \in failed \cap (1..Len(all)) :
                     \A k \in failed \cap (1..Len(all)) : j <= k
  IN [j \in 1..stop |-> Op("delete", all[j].filename, j \notin failed)]

\* the delete_object calls for existing_check['all'], in order; failed is the
\* set of positions whose call raises
DeleteOps(all, failed) ==
  [j \in 1..Len(all) |-> Op("delete", all[j].filename, j \notin failed)]

\* a delete loop that stops after the newest match
DeletedLatestOnly(all, failed) == { all[j].filename : j \in ({1} \cap (1..Len(all))) \ failed }

Deleted(all, failed) == { all[j].filename : j \in (1..Len(all)) \ failed }

\* delete the old backups: every matched object gets its own try
DeleteOld ==
  /\ pc = "delete"
  /\ IF existing_check.exists
     THEN \E failed \in SUBSET (1..Len(existing_check.all)) :
            /\ bucket' = Delete(bucket, Deleted(existing_check.all, failed))
            /\ ops' = ops \o DeleteOps(existing_check.all, failed)
     ELSE UNCHANGED <<bucket, ops>>
  /\ pc' = StepAfter("delete")
  /\ UNCHANGED <<now, md5, bucket0, fetch, catalog, dry_run, max_repos, starred_repos, i,
                 repo_id, existing_check, manifest, success_count, failed_repos,
                 tempFiles, idCalls>>

\* what the cleanup at the end of backup_repository leaves in the temp dir:
\* both paths are removed, or rmtree raises and the except branch only logs
\* (unlink raising after rmtree succeeded, which leaves the archive alone, is
\* not drawn: nothing reads a left archive)
Cleanup(files, repo, rid, outcome) ==
  IF outcome = "ok" THEN files \ {ClonePath(repo), ZipName(rid)}
  ELSE files

CleanupOutcomes == {"ok", "rmtree_failed"}

\* a status that does not look at the result of the upload
UploadStatusAlwaysSuccess(success) == "success"

\* status = 'success' if success else 'failed_upload'
UploadStatus(success) == IF success THEN "success" ELSE "failed_upload"

\* upload_to_r2, add_to_manifest, cleanup, return
Upload ==
  /\ pc = "upload"
  /\ LET repo == starred_repos[i] IN
     \E success \in BOOLEAN, outcome \in CleanupOutcomes :
       /\ bucket' = IF success THEN Put(bucket, ZipName(repo_id), now) ELSE bucket
       /\ ops' = Append(ops, Op("upload", ZipName(repo_id), success))
       /\ manifest' = add_to_manifest(manifest, repo, repo_id, UploadStatus(success),
                                      ZipName(repo_id),
                                      [is_update |-> existing_check.exists], now)
       /\ tempFiles' = Cleanup(tempFiles, repo, repo_id, outcome)
       /\ ReturnToLoop(success)
  /\ UNCHANGED <<now, md5, bucket0, fetch, catalog, dry_run, max_repos, starred_repos,
                 repo_id, existing_check, idCalls>>

-----------------------------------------------------------------------------
(* the end of run_backup *)

ManifestName(m) == "manifest_" \o m.backup_id \o ".json"

\* the orders in which a listing can present a set of keys
Orders(keys) ==
  { f \in [1..Cardinality(keys) -> keys] :
      \A j, k \in 1..Cardinality(keys) : f[j] = f[k] => j = k }

\* the delete_object calls of save_manifest for the old manifests olds, in
\* order; fail is the position of the call that raises (0: none raises): the
\* one try around the loop ends it there
ManifestDeleteOps(olds, fail) ==
  [j \in 1..(IF fail = 0 THEN Len(olds) ELSE fail) |-> Op("delete", olds[j], j # fail)]

\* a save_manifest whose delete loop stops after the first old manifest
DeletedManifestsFirstOnly(olds, fail) ==
  { olds[j] : j \in 1..(IF fail = 1 \/ olds = <<>> THEN 0 ELSE 1) }

DeletedManifests(olds, fail) ==
  { olds[j] : j \in 1..(IF fail = 0 THEN Len(olds) ELSE fail - 1) }

\* a run_backup that saves the manifest only when a repository succeeded
LoopEndOnlyOnSuccess ==
  /\ pc = "loop"
  /\ ~dry_run
  /\ i > Len(starred_repos)
  /\ success_count > 0
  /\ repo_id' = None
  /\ existing_check' = NotExists
  /\ ops' = <<>>
  /\ tempFiles' = {}
  /\ pc' = "save"
  /\ UNCHANGED <<now, md5, bucket0, bucket, fetch, catalog, dry_run, max_repos,
                 starred_repos, i, manifest, success_count, failed_repos, idCalls>>

\* the for loop of a non-dry run is left: the locals of the last
\* backup_repository call are gone.  What the repositories left in the temp
\* directory is removed with it when the with block is left, after
\* save_manifest, which reads none of it: the model drops it here
LoopEnd ==
  /\ pc = "loop"
  /\ ~dry_run
  /\ i > Len(starred_repos)
  /\ repo_id' = None
  /\ existing_check' = NotExists
  /\ ops' = <<>>
  /\ tempFiles' = {}
  /\ pc' = "save"
  /\ UNCHANGED <<now, md5, bucket0, bucket, fetch, catalog, dry_run, max_repos,
                 starred_repos, i, manifest, success_count, failed_repos, idCalls>>

\* save_manifest: list the bucket and delete the old manifests, write the
\* manifest to the temp directory (a failure there ends save_manifest), then
\* upload it; the TemporaryDirectory is removed on leaving the with block
SaveManifest ==
  /\ pc = "save"
  /\ \E list_ok, dump_ok, upload_ok \in BOOLEAN :
     \E olds \in Orders(IF list_ok THEN {k \in DOMAIN bucket : IsManifestKey(k)} ELSE {}) :
     \E fail \in 0..Len(olds) :
       LET kept == Delete(bucket, DeletedManifests(olds, fail))
       IN /\ bucket' = IF dump_ok /\ upload_ok
                        THEN Put(kept, ManifestName(manifest), now)
                        ELSE kept
          /\ ops' = <<Op("list", None, list_ok)>>
                      \o ManifestDeleteOps(olds, fail)
                      \o (IF dump_ok
                          THEN <<Op("upload", ManifestName(manifest), upload_ok)>>
                          ELSE <<>>)
  /\ tempFiles' = {}
  /\ pc' = "done"
  /\ UNCHANGED <<now, md5, bucket0, fetch, catalog, dry_run, max_repos, starred_repos, i,
                 repo_id, existing_check, manifest, success_count, failed_repos,
                 idCalls>>

\* the end of a dry run: the manifest is only previewed
DryRunFinish ==
  /\ pc = "loop"
  /\ dry_run
  /\ i > Len(starred_repos)
  /\ tempFiles' = {}
  /\ pc' = "done"
  /\ UNCHANGED <<now, md5, bucket0, bucket, fetch, catalog, dry_run, max_repos, starred_repos,
                 i, repo_id, existing_check, manifest, success_count, failed_repos,
                 ops, idCalls>>

Next ==
  \/ GetStarredRepos
  \/ RunBackupStart
  \/ NextDay
  \/ DryRunStep
  \/ BackupRepositoryCheck
  \/ Clone
  \/ Zip
  \/ DeleteOld
  \/ Upload
  \/ LoopEnd
  \/ SaveManifest
  \/ DryRunFinish

Spec == Init /\ [][Next]_vars

-----------------------------------------------------------------------------
(* generate_repo_id on its own: calls with drawn arguments at drawn times *)

InitId ==
  /\ pc = "id"
  /\ now = 0
  /\ md5 \in Md5Functions
  /\ bucket = EmptyMap
  /\ bucket0 = EmptyMap
  /\ fetch = NoFetch
  /\ catalog = <<>>
  /\ dry_run = FALSE
  /\ max_repos = <<>>
  /\ starred_repos = <<>>
  /\ i = 0
  /\ repo_id = None
  /\ existing_check = NotExists
  /\ manifest = NewManifest(0)
  /\ success_count = 0
  /\ failed_repos = <<>>
  /\ tempFiles = {}
  /\ ops = <<>>
  /\ idCalls = {}

CallGenerateRepoId ==
  /\ pc = "id"
  /\ Cardinality(idCalls) < MaxCalls
  /\ \E d \in Universe :
       /\ repo_id' = generate_repo_id(d.full_name, d.clone_url, now)
       /\ idCalls' = idCalls \cup {[repo |-> d, at |-> now, id |-> repo_id']}
  /\ UNCHANGED <<pc, now, md5, bucket0, bucket, fetch, catalog, dry_run, max_repos,
                 starred_repos, i, existing_check, manifest, success_count,
                 failed_repos, tempFiles, ops>>

TickId ==
  /\ pc = "id"
  /\ now < (MaxDay + 1) * TicksPerDay - 1
  /\ now' = now + 1
  /\ UNCHANGED <<pc, md5, bucket0, bucket, fetch, catalog, dry_run, max_repos,
                 starred_repos, i, repo_id, existing_check, manifest, success_count,
                 failed_repos, tempFiles, ops, idCalls>>

NextId ==
  \/ CallGenerateRepoId
  \/ TickId

SpecId == InitId /\ [][NextId]_vars

-----------------------------------------------------------------------------
(* save_manifest on its own: the end of a run over one repository that could *)
(* not be cloned, with any number of manifests of prior runs in the bucket   *)

MaxManifests == 2   \* manifests of prior runs in the bucket

PriorManifest(n) == "manifest_backup_202401" \o Pad(n, 2) \o "_000000.json"

InitSave ==
  /\ pc = "save"
  /\ now \in {0, TicksPerDay}
  /\ md5 \in Md5Functions
  /\ \E olds \in SUBSET (1..MaxManifests), others \in SUBSET {ForeignKey, "20231201_r.zip"} :
       bucket = [k \in {PriorManifest(n) : n \in olds} \cup others |-> -1]
  /\ bucket0 = bucket
  /\ fetch = NoFetch
  /\ \E d \in Universe :
       /\ catalog = <<d>>
       /\ starred_repos = <<d>>
       /\ manifest = add_to_manifest(NewManifest(0), d,
                                     generate_repo_id(d.full_name, d.clone_url, 0),
                                     "failed_clone", None, None, 0)
       /\ failed_repos = <<d.name>>
  /\ repo_id = None
  /\ ops = <<>>
  /\ dry_run = FALSE
  /\ max_repos = <<>>
  /\ i = 2
  /\ existing_check = NotExists
  /\ success_count = 0
  /\ tempFiles = {}
  /\ idCalls = {}

SpecSave == InitSave /\ [][SaveManifest]_vars

-----------------------------------------------------------------------------
(* enhance_repo_metadata: the inner loop of get_starred_repos over one page, *)
(* each repository enhanced from three auxiliary requests                    *)

TopContributors == 10   \* contributors kept: response.json()[:10]

Aux == {"contributors", "languages", "topics"}

\* an auxiliary request: status 200 with a body, another status, or it raises
Response(outcome, body) == [outcome |-> outcome, body |-> body]

\* seq[:n]
Take(seq, n) == SubSeq(seq, 1, IF Len(seq) < n THEN Len(seq) ELSE n)

\* what the three endpoints can answer for a repository: no contributor or
\* one more than are kept, the bytes per language, the topic names
Responses(repo) ==
  [contributors : {Response("ok", <<>>),
                   Response("ok", [j \in 1..(TopContributors + 1) |-> j]),
                   Response("status", <<>>), Response("raised", <<>>)},
   languages : {Response("ok", IF repo.language = None THEN EmptyMap
                               ELSE [l \in {repo.language} |-> 100]),
                Response("status", EmptyMap), Response("raised", EmptyMap)},
   topics : {Response("ok", repo.topics),
             Response("status", <<>>), Response("raised", <<>>)}]

\* an enhancement with one try around the three requests
enhance_repo_metadata_one_try(repo, responses) ==
  LET ok == \A f \in Aux : responses[f].outcome = "ok"
  IN [k \in DOMAIN repo \cup Aux |->
        CASE k = "contributors" ->
               IF ok THEN Take(responses.contributors.body, TopContributors) ELSE <<>>
          [] k = "languages" -> IF ok THEN responses.languages.body ELSE EmptyMap
          [] k = "topics" -> IF ok THEN responses.topics.body ELSE <<>>
          [] OTHER -> repo[k]]

enhance_repo_metadata(repo, responses) ==
  LET contributors == IF responses.contributors.outcome = "ok"
                      THEN Take(responses.contributors.body, TopContributors)
                      ELSE <<>>
      languages == IF responses.languages.outcome = "ok"
                   THEN responses.languages.body
                   ELSE EmptyMap
      topics == IF responses.topics.outcome = "ok"
                THEN responses.topics.body
                ELSE <<>>
  IN [k \in DOMAIN repo \cup Aux |->
        CASE k = "contributors" -> contributors
          [] k = "languages" -> languages
          [] k = "topics" -> topics
          [] OTHER -> repo[k]]

InitEnhance ==
  /\ pc = "enhance"
  /\ now = 0
  /\ md5 \in Md5Functions
  /\ bucket = EmptyMap
  /\ bucket0 = EmptyMap
  /\ \E page \in Accounts : fetch = [kind |-> "page", account |-> page, responses |-> <<>>]
  /\ catalog = <<>>
  /\ dry_run = FALSE
  /\ max_repos = <<>>
  /\ starred_repos = <<>>
  /\ i = 0
  /\ repo_id = None
  /\ existing_check = NotExists
  /\ manifest = NewManifest(0)
  /\ success_count = 0
  /\ failed_repos = <<>>
  /\ tempFiles = {}
  /\ ops = <<>>
  /\ idCalls = {}

\* for i, repo in enumerate(repos, 1): starred_repos.append(enhance(repo))
EnhanceRepo ==
  /\ pc = "enhance"
  /\ Len(catalog) < Len(fetch.account)
  /\ LET repo == fetch.account[Len(catalog) + 1] IN
     \E responses \in Responses(repo) :
       /\ catalog' = Append(catalog, enhance_repo_metadata(repo, responses))
       /\ fetch' = [fetch EXCEPT !.responses = Append(@, responses)]
  /\ UNCHANGED <<pc, now, md5, bucket0, bucket, dry_run, max_repos, starred_repos, i,
                 repo_id, existing_check, manifest, success_count, failed_repos,
                 tempFiles, ops, idCalls>>

SpecEnhance == InitEnhance /\ [][EnhanceRepo]_vars

-----------------------------------------------------------------------------
(* The while loop of get_starred_repos, one request at a time, followed by
   the run over what it returned *)

\* the page the API serves for params page and per_page
Page(account, page) ==
  SubSeq(account, (page - 1) * PerPage + 1,
         IF page * PerPage < Len(account) THEN page * PerPage ELSE Len(account))

\* a loop that gives up what it collected when a request raises
AfterPageErrorNothing(collected) == <<>>

\* except requests.RequestException: break, then return starred_repos
AfterPageError(collected) == collected

\* the identity is resolved and page = 1; the bucket is the one earlier runs
\* left
InitPages ==
  /\ pc = "page"
  /\ now = 0
  /\ md5 \in Md5Functions
  /\ bucket = PreObjects
  /\ bucket0 = bucket
  /\ \E account \in Accounts :
       fetch = [kind |-> "fetching", account |-> account, page |-> 1]
  /\ catalog = <<>>
  /\ dry_run \in BOOLEAN
  /\ max_repos \in {<<>>} \cup {<<n>> : n \in 0..MaxLimit}
  /\ starred_repos = <<>>
  /\ i = 0
  /\ repo_id = None
  /\ existing_check = NotExists
  /\ manifest = NewManifest(0)
  /\ success_count = 0
  /\ failed_repos = <<>>
  /\ tempFiles = {}
  /\ ops = <<>>
  /\ idCalls = {}

\* one iteration of while True: the request raises, or the page is empty, or
\* its repositories are appended and page is incremented
FetchPage ==
  /\ pc = "page"
  /\ \E ok \in BOOLEAN :
       LET repos == Page(fetch.account, fetch.page)
       IN IF ~ok
          THEN /\ fetch' = [fetch EXCEPT !.kind = "page_error"]
               /\ catalog' = AfterPageError(catalog)
               /\ pc' = "fetched"
          ELSE IF repos = <<>>
          THEN /\ fetch' = [fetch EXCEPT !.kind = "complete"]
               /\ catalog' = catalog
               /\ pc' = "fetched"
          ELSE /\ fetch' = [fetch EXCEPT !.page = @ + 1]
               /\ catalog' = catalog \o repos
               /\ pc' = "page"
  /\ UNCHANGED <<now, md5, bucket0, bucket, dry_run, max_repos, starred_repos, i,
                 repo_id, existing_check, manifest, success_count, failed_repos,
                 tempFiles, ops, idCalls>>

NextPages ==
  \/ FetchPage
  \/ RunBackupStart
  \/ NextDay
  \/ DryRunStep
  \/ BackupRepositoryCheck
  \/ Clone
  \/ Zip
  \/ DeleteOld
  \/ Upload
  \/ LoopEnd
  \/ SaveManifest
  \/ DryRunFinish

SpecPages == InitPages /\ [][NextPages]_vars

-----------------------------------------------------------------------------
(* Two non-dry runs of run_backup over the same catalog on one calendar day,
   in which no call fails *)

FirstRun == [kind |-> "run", number |-> 1]
SecondRun == [kind |-> "run", number |-> 2]

DistinctShortNames(q) == \A j, k \in 1..Len(q) : q[j].name = q[k].name => j = k

\* the loop of the first run is entered with a catalog of pairwise distinct
\* short names
InitRerun ==
  /\ pc = "loop"
  /\ now = 0
  /\ md5 \in Md5Functions
  /\ bucket \in InitialBuckets
  /\ bucket0 = bucket
  /\ fetch = FirstRun
  /\ catalog \in { q \in Accounts : q # <<>> /\ DistinctShortNames(q) }
  /\ starred_repos = catalog
  /\ dry_run = FALSE
  /\ max_repos = <<>>
  /\ i = 1
  /\ repo_id = None
  /\ existing_check = NotExists
  /\ manifest = NewManifest(0)
  /\ success_count = 0
  /\ failed_repos = <<>>
  /\ tempFiles = {}
  /\ ops = <<>>
  /\ idCalls = {}

\* every call made so far succeeded: the storage, git and zip calls, the
\* cleanup at the end of backup_repository, the dump of the manifest
NoFailure ==
  /\ \A j \in 1..Len(ops) : ops[j].ok
  /\ pc = "loop" => tempFiles = {}
  /\ pc = "done" => ops # <<>> /\ ops[Len(ops)].op = "upload"

\* the program is started again later on the same day: a new object with a
\* new manifest, the same catalog, the bucket as the first run left it
Restart ==
  /\ pc = "done"
  /\ fetch = FirstRun
  /\ fetch' = SecondRun
  /\ now' = now + 1
  /\ DayOf(now') = DayOf(now)
  /\ bucket0' = bucket
  /\ manifest' = NewManifest(now')
  /\ starred_repos' = catalog
  /\ i' = 1
  /\ success_count' = 0
  /\ failed_repos' = <<>>
  /\ ops' = <<>>
  /\ pc' = "loop"
  /\ UNCHANGED <<md5, bucket, catalog, dry_run, max_repos, repo_id, existing_check,
                 tempFiles, idCalls>>

NextRerun ==
  \/ BackupRepositoryCheck /\ NoFailure'
  \/ Clone /\ NoFailure'
  \/ Zip /\ NoFailure'
  \/ DeleteOld /\ NoFailure'
  \/ Upload /\ NoFailure'
  \/ LoopEnd /\ NoFailure'
  \/ SaveManifest /\ NoFailure'
  \/ Restart

SpecRerun == InitRerun /\ [][NextRerun]_vars

-----------------------------------------------------------------------------
(* Claims *)

\* backup_repository has returned for starred_repos[i - 1]; repo_id,
\* existing_check and ops are still those of that call
Returned == pc = "loop" /\ ~dry_run /\ i > 1 /\ ops # <<>>
LastRepo == starred_repos[i - 1]
LastOp == ops[Len(ops)]
ReturnedSuccess == Returned /\ LastOp.op = "upload" /\ LastOp.ok
ReturnedFailedUpload == Returned /\ LastOp.op = "upload" /\ ~LastOp.ok
ReturnedFailedZip == Returned /\ LastOp.op = "zip" /\ ~LastOp.ok
ReturnedFailedClone == Returned /\ LastOp.op = "clone" /\ ~LastOp.ok

ListSucceeded == ops # <<>> /\ ops[1].op = "list" /\ ops[1].ok
DeleteSucceeded(key) == \E j \in 1..Len(ops) : ops[j] = Op("delete", key, TRUE)
DeleteIssued(key) == \E j \in 1..Len(ops) : ops[j].op = "delete" /\ ops[j].key = key
MatchedKeys == { existing_check.all[j].filename : j \in 1..Len(existing_check.all) }

\* the keys of the bucket that end with _{owner}_{repo}.zip
CurrentSchemeKeys(repo) ==
  { k \in DOMAIN bucket : EndsWith(k, "_" \o repo.owner \o "_" \o repo.name \o ".zip") }

\* the keys of the bucket that end with _{repo}.zip
LegacySchemeKeys(repo) ==
  { k \in DOMAIN bucket : EndsWith(k, "_" \o repo.name \o ".zip") }

\* C1 as stated: after a successful upload every object matched at the start
\* of the pipeline is absent from the bucket and exactly one object with the
\* current-scheme suffix is present.
C1_AsStated ==
  ReturnedSuccess =>
    /\ \A k \in MatchedKeys : k \notin DOMAIN bucket
    /\ Cardinality(CurrentSchemeKeys(LastRepo)) = 1

\* C1 as amended: after a successful upload the new archive {repoId}.zip is
\* present; every matched object got a delete call, and each one whose delete
\* succeeded and whose key is not the new archive's key is absent; when the
\* listing and every delete succeeded, the new archive is the only object with
\* the current-scheme suffix.
C1_SuccessReplacesDeleted ==
  ReturnedSuccess =>
    /\ ZipName(repo_id) \in DOMAIN bucket
    /\ \A k \in MatchedKeys : DeleteIssued(k)
    /\ \A k \in MatchedKeys :
         DeleteSucceeded(k) /\ k # ZipName(repo_id) => k \notin DOMAIN bucket
    /\ (ListSucceeded /\ \A k \in MatchedKeys : DeleteSucceeded(k))
         => CurrentSchemeKeys(LastRepo) = {ZipName(repo_id)}

\* a successful upload that replaced two matched backups, both deleted
C1_Witness ==
  /\ ReturnedSuccess
  /\ Cardinality(MatchedKeys) = 2
  /\ \A k \in MatchedKeys : DeleteSucceeded(k) /\ k \notin DOMAIN bucket

\* C2: when packaging fails, no delete_object call was issued for a matched
\* backup and every matched backup is still in the bucket, unchanged, when
\* the pipeline returns with failed_zip.
C2_FailedZipKeepsStale ==
  ReturnedFailedZip =>
    /\ \A j \in 1..Len(ops) : ops[j].op # "delete"
    /\ \A j \in 1..Len(existing_check.all) :
         /\ existing_check.all[j].filename \in DOMAIN bucket
         /\ bucket[existing_check.all[j].filename] = existing_check.all[j].last_modified
    /\ manifest.repositories[repo_id].backup_status = "failed_zip"

\* a pipeline that matched two backups and then failed to package
C2_Witness ==
  /\ ReturnedFailedZip
  /\ existing_check.exists
  /\ Len(existing_check.all) = 2

Entries == manifest.repositories
EntriesOf(repo) == { id \in DOMAIN Entries : Entries[id].full_name = repo.full_name }

\* C3: after a run that attempted N repositories the manifest holds exactly N
\* entries, one per attempted repository, and no call of add_to_manifest
\* replaced an entry made earlier in the run (as many entries as calls).
C3_OneEntryPerAttempt ==
  /\ manifest.total_repos = Cardinality(DOMAIN Entries)
  /\ pc = "done" /\ catalog # <<>> =>
       /\ Cardinality(DOMAIN Entries) = Len(starred_repos)
       /\ \A j \in 1..Len(starred_repos) : Cardinality(EntriesOf(starred_repos[j])) = 1

\* C4: a dry run over k repositories records exactly k manifest entries, all
\* with status dry_run, issues no clone, zip, upload or delete, and leaves the
\* bucket as it found it.
C4_DryRunRecordsAll ==
  pc = "done" /\ dry_run /\ catalog # <<>> =>
    /\ Cardinality(DOMAIN Entries) = Len(starred_repos)
    /\ \A id \in DOMAIN Entries : Entries[id].backup_status = "dry_run"
    /\ ops = <<>>
    /\ bucket = bucket0

TerminalOutcomes == {"success", "failed_clone", "failed_zip", "failed_upload"}

\* C5: in a non-dry run every repository of the limited catalog is processed
\* whatever failed before it: each repository processed so far has exactly one
\* manifest entry, with a terminal outcome, the failures are counted, and the
\* run ends only after the last repository.
C5_EveryRepositoryProcessed ==
  ~dry_run /\ i >= 1 =>
    /\ \A j \in 1..(i - 1) :
         /\ Cardinality(EntriesOf(starred_repos[j])) = 1
         /\ \A id \in EntriesOf(starred_repos[j]) :
              Entries[id].backup_status \in TerminalOutcomes
    /\ success_count + Len(failed_repos) = i - 1
    /\ pc = "done" => i = Len(starred_repos) + 1

\* a run of two repositories that went on after the first one failed to clone
C5_Witness ==
  /\ pc = "done" /\ ~dry_run /\ Len(starred_repos) = 2
  /\ \E id \in EntriesOf(starred_repos[1]) : Entries[id].backup_status = "failed_clone"
  /\ \E id \in EntriesOf(starred_repos[2]) : Entries[id].backup_status = "success"

\* the result of check_existing_backup for repo is exactly the matching
\* objects of the bucket, newest first
ExactMatch(repo) ==
  LET all == existing_check.all
      want == CurrentSchemeKeys(repo) \cup LegacySchemeKeys(repo)
  IN /\ { all[j].filename : j \in 1..Len(all) } = want
     /\ Len(all) = Cardinality(want)
     /\ existing_check.exists <=> want # {}
     /\ \A j \in 1..Len(all) : all[j].last_modified = bucket[all[j].filename]
     /\ \A j, k \in 1..Len(all) : j < k => all[j].last_modified >= all[k].last_modified
     /\ \A k \in want : existing_check.exists => all[1].last_modified >= bucket[k]

\* C6 as stated: check_existing_backup returns exactly the objects of the
\* bucket that end with either suffix, exists iff there is one, newest first.
C6_AsStated == pc = "clone" => ExactMatch(starred_repos[i])

\* C6 as amended: the same, provided list_objects_v2 did not raise; when it
\* raises the result is exists = false with no match.
C6_ExactMatchWhenListed ==
  pc = "clone" =>
    IF ListSucceeded THEN ExactMatch(starred_repos[i])
    ELSE ~existing_check.exists /\ existing_check.all = <<>>

\* for a/r the archive of day 0 is ranked before the older legacy archive
C6_Witness ==
  /\ pc = "clone" /\ ListSucceeded
  /\ starred_repos[i].full_name = "a/r"
  /\ Len(existing_check.all) = 2
  /\ existing_check.all[1].filename = "20241231_0a0a0a0a_a_r.zip"
  /\ existing_check.all[2].filename = "20231201_r.zip"

\* C7: two calls of generate_repo_id with the same arguments return the same
\* id when made on the same calendar day and different ids when made on
\* different days, and every id is {YYYYMMDD}_{hash8(cloneUrl)}_{owner}_{repo}.
C7_DeterministicPerDay ==
  /\ \A c1, c2 \in idCalls :
       c1.repo = c2.repo =>
         (DayOf(c1.at) = DayOf(c2.at) <=> c1.id = c2.id)
  /\ \A c \in idCalls :
       LET date == DateOf(DayOf(c.at)) IN
         c.id = Pad(date.year, 4) \o Pad(date.month, 2) \o Pad(date.day, 2)
                \o "_" \o md5[c.repo.clone_url]
                \o "_" \o c.repo.owner \o "_" \o c.repo.name

\* the same repository named twice on one day, at two times, and once the day after
C7_Witness ==
  \E c1, c2, c3 \in idCalls :
    /\ c1.repo = c2.repo /\ c2.repo = c3.repo
    /\ c1.at # c2.at /\ DayOf(c1.at) = DayOf(c2.at)
    /\ DayOf(c3.at) # DayOf(c1.at)

\* C8: what get_starred_repos returns when the fetch failed differs from what
\* it returns for an account with zero starred repositories.
C8_FailureDistinctFromEmpty ==
  pc = "fetched" /\ fetch.kind \in {"identity_failed", "page_error"} =>
    catalog # Collected(<<>>, 0)

\* C9: when the catalog is empty run_backup ends without processing anything:
\* the bucket is as the run found it (no manifest uploaded, no prior manifest
\* deleted, no archive uploaded or deleted), no call was issued and the
\* manifest in memory has no entry.
C9_EmptyCatalogNoEffect ==
  pc = "done" /\ catalog = <<>> =>
    /\ bucket = bucket0
    /\ ops = <<>>
    /\ Entries = EmptyMap
    /\ manifest.total_repos = 0
    /\ manifest.lookup = EmptyMap

\* an empty catalog with a manifest of a prior run in the bucket
C9_Witness ==
  /\ pc = "done" /\ catalog = <<>>
  /\ \E k \in DOMAIN bucket : IsManifestKey(k)

\* C10: when a repository is cloned, no snapshot directory or archive of an
\* earlier repository of the run is left in the temp directory.
C10_TempReleasedBeforeNext ==
  pc = "clone" => tempFiles = {}

\* save_manifest has returned at the end of a non-dry run; ops are its calls
Saved == pc = "done" /\ ~dry_run /\ i > 0
ManifestKeys(b) == { k \in DOMAIN b : IsManifestKey(k) }

\* C11: save_manifest uploads the new manifest before it deletes a manifest
\* of a prior run (no delete call precedes the upload call), so that a bucket
\* that held a manifest before save_manifest holds one after it, whether or
\* not the upload succeeded.
C11_PersistBeforeDelete ==
  Saved =>
    /\ \A j, k \in 1..Len(ops) :
         ops[j].op = "delete" /\ ops[k].op = "upload" => k < j
    /\ ManifestKeys(bucket0) # {} => ManifestKeys(bucket) # {}

\* C12 as stated: after save_manifest the only manifest object in the bucket
\* is manifest_{backup_id}.json of this run.
C12_AsStated ==
  Saved => ManifestKeys(bucket) = {ManifestName(manifest)}

\* C12 as amended: every manifest object left is this run's or one of a prior
\* run that was not deleted; when the listing and every delete succeeded no
\* manifest of a prior run is left, and when the upload succeeded too the only
\* manifest object is this run's.
C12_SingleManifestWhenAllSucceed ==
  Saved =>
    /\ ManifestKeys(bucket) \subseteq ManifestKeys(bucket0) \cup {ManifestName(manifest)}
    /\ \A k \in ManifestKeys(bucket0) :
         DeleteSucceeded(k) /\ k # ManifestName(manifest) => k \notin DOMAIN bucket
    /\ (ListSucceeded /\ \A j \in 1..Len(ops) : ops[j].op = "delete" => ops[j].ok)
         => /\ ManifestKeys(bucket) \subseteq {ManifestName(manifest)}
            /\ \A k \in ManifestKeys(bucket0) : DeleteSucceeded(k)
            /\ LastOp = Op("upload", ManifestName(manifest), TRUE)
                  => ManifestKeys(bucket) = {ManifestName(manifest)}

\* two manifests of prior runs, both deleted, and this run's manifest uploaded
C12_Witness ==
  /\ Saved
  /\ Cardinality(ManifestKeys(bucket0)) = 2
  /\ \A k \in ManifestKeys(bucket0) : DeleteSucceeded(k)
  /\ ManifestKeys(bucket) = {ManifestName(manifest)}

\* backup_repository is running or has just returned, and its listing raised
ListFailed == ~dry_run /\ pc # "done" /\ ops # <<>> /\ ops[1] = Op("list", None, FALSE)

\* C13: when list_objects_v2 raises inside check_existing_backup the result is
\* exists = false and the pipeline goes on: the clone is attempted, then the
\* zip, then the upload (each if the step before it succeeded), no
\* delete_object call is issued, and a successful upload stores the archive.
C13_ListingErrorContinues ==
  ListFailed =>
    /\ existing_check = NotExists
    /\ \A j \in 1..Len(ops) : ops[j].op # "delete"
    /\ pc \in {"clone", "zip", "delete", "upload", "loop"}
    /\ pc = "loop" =>
         /\ Len(ops) >= 2 /\ ops[2].op = "clone"
         /\ ops[2].ok => Len(ops) >= 3 /\ ops[3].op = "zip"
         /\ (ops[2].ok /\ ops[3].ok) =>
              /\ Len(ops) = 4
              /\ ops[4].op = "upload" /\ ops[4].key = ZipName(repo_id)
              /\ ops[4].ok => ZipName(repo_id) \in DOMAIN bucket
              /\ Entries[repo_id].backup_status =
                   (IF ops[4].ok THEN "success" ELSE "failed_upload")

\* the listing raised, the archive was uploaded all the same and the older
\* backups of the repository are still in the bucket
C13_Witness ==
  /\ ListFailed /\ ReturnedSuccess
  /\ \E k \in LegacySchemeKeys(LastRepo) : k # ZipName(repo_id)

\* C14: every manifest entry carries an is_update flag, true exactly when the
\* run matched an existing backup of the repository and uploaded a new archive.
C14_EntriesCarryIsUpdate ==
  /\ \A id \in DOMAIN Entries : "is_update" \in DOMAIN Entries[id]
  /\ Returned =>
       Get(Entries[repo_id], "is_update", None) = (existing_check.exists /\ ReturnedSuccess)

\* C15: in a non-dry run the clone is the step after the check of every
\* processed repository, whether or not a backup was matched and whatever
\* skip_existing is: the second call of every pipeline is the clone of the
\* repository.
C15_MatchNeverSkips ==
  ~dry_run /\ pc # "done" /\ ops # <<>> =>
    /\ ops[1].op = "list"
    /\ Len(ops) = 1 => pc = "clone"
    /\ Len(ops) > 1 =>
         ops[2].op = "clone" /\
         ops[2].key = (IF pc = "loop" THEN LastRepo ELSE starred_repos[i]).clone_url

\* a repository with two matched backups was cloned all the same
C15_Witness ==
  /\ pc = "zip"
  /\ existing_check.exists /\ Len(existing_check.all) = 2
  /\ ops[2] = Op("clone", starred_repos[i].clone_url, TRUE)

IdentityCalls == fetch.user_info.calls
IdentityFailed == fetch.kind = "identity_failed"

\* C16: get_user_info makes the id lookup first when an id is configured and
\* the username lookup only when a username is configured and no id lookup
\* succeeded; the fetch fails for want of an identity exactly when every
\* lookup made failed, and then run_backup returns with an empty manifest, an
\* untouched bucket and no call to git, zipfile or storage.
C16_IdFirstThenUsername ==
  fetch.kind # "none" =>
    /\ IdentityCalls # <<>>
    /\ Len(IdentityCalls) <= 2
    /\ fetch.has_id <=> IdentityCalls[1].by = "id"
    /\ \A j \in 1..Len(IdentityCalls) :
         /\ IdentityCalls[j].by = "id" => j = 1
         /\ IdentityCalls[j].by = "username" =>
              fetch.has_name /\ (j = 2 => ~IdentityCalls[1].ok)
    /\ fetch.has_name /\ ~IdentityCalls[1].ok =>
         IdentityCalls[Len(IdentityCalls)].by = "username"
    /\ IdentityFailed <=> \A j \in 1..Len(IdentityCalls) : ~IdentityCalls[j].ok
    /\ IdentityFailed =>
         /\ catalog = <<>> /\ NothingToDo(catalog)
         /\ pc \in {"fetched", "done"}
         /\ Entries = EmptyMap /\ manifest.total_repos = 0
         /\ ops = <<>> /\ bucket = bucket0 /\ i = 0

\* the id lookup failed, the username lookup succeeded and the fetch went on
C16_Witness ==
  /\ fetch.kind = "complete" /\ catalog # <<>>
  /\ IdentityCalls = <<Lookup("id", FALSE), Lookup("username", TRUE)>>

\* both lookups failed and run_backup has returned
C16_WitnessAbort ==
  /\ pc = "done" /\ IdentityFailed
  /\ IdentityCalls = <<Lookup("id", FALSE), Lookup("username", FALSE)>>

\* the field an auxiliary request leaves when it does not answer 200
EmptyField(f) == IF f = "languages" THEN EmptyMap ELSE <<>>

\* C17: every repository of a page yields one enhanced descriptor, in page
\* order, whatever subset of the three auxiliary requests fails: a request
\* that fails leaves its own field empty, a request that answers leaves what
\* it fetched (at most the first ten contributors), and every other field is
\* the one of the raw descriptor.
C17_EnhanceDegradesPerField ==
  pc = "enhance" =>
    /\ Len(catalog) = Len(fetch.responses)
    /\ Len(catalog) <= Len(fetch.account)
    /\ \A j \in 1..Len(catalog) :
         LET raw == fetch.account[j]
             got == fetch.responses[j]
         IN /\ DOMAIN catalog[j] = DOMAIN raw \cup Aux
            /\ \A k \in DOMAIN raw \ Aux : catalog[j][k] = raw[k]
            /\ \A f \in Aux :
                 IF got[f].outcome # "ok" THEN catalog[j][f] = EmptyField(f)
                 ELSE IF f = "contributors"
                 THEN /\ Len(catalog[j][f]) <= TopContributors
                      /\ \A n \in 1..Len(catalog[j][f]) : catalog[j][f][n] = got[f].body[n]
                      /\ Len(got[f].body) <= TopContributors
                           => catalog[j][f] = got[f].body
                 ELSE catalog[j][f] = got[f].body

\* a page of two repositories enhanced: for the first the topics request
\* failed alone, for the second the other two failed
C17_Witness ==
  /\ pc = "enhance" /\ Len(catalog) = 2
  /\ fetch.responses[1].topics.outcome # "ok"
  /\ fetch.responses[1].contributors.outcome = "ok"
  /\ fetch.responses[1].languages.outcome = "ok"
  /\ catalog[1].topics = <<>> /\ catalog[1].languages # EmptyMap
  /\ fetch.responses[2].topics.outcome = "ok"
  /\ fetch.responses[2].contributors.outcome = "raised"
  /\ fetch.responses[2].languages.outcome = "status"
  /\ catalog[2].topics # <<>> /\ catalog[2].languages = EmptyMap

\* the repositories add_to_manifest was called for so far in the run
NumRecorded == IF pc \in {"loop", "save", "done"} /\ i >= 1 THEN i - 1 ELSE 0

\* C18: lookup[full_name] is the id of the entry recorded for that full name,
\* lookup[name] is the id recorded for the last repository of that short
\* name, and every value of lookup is a key of manifest.repositories.
C18_LookupFindsEntries ==
  pc \in {"loop", "save", "done"} =>
    /\ \A key \in DOMAIN manifest.lookup : manifest.lookup[key] \in DOMAIN Entries
    /\ \A j \in 1..NumRecorded :
         LET repo == starred_repos[j] IN
           /\ repo.full_name \in DOMAIN manifest.lookup
           /\ repo.name \in DOMAIN manifest.lookup
           /\ Entries[manifest.lookup[repo.full_name]].full_name = repo.full_name
           /\ (\A k \in (j + 1)..NumRecorded : starred_repos[k].name # repo.name)
                 => manifest.lookup[repo.name] = manifest.lookup[repo.full_name]

\* the same for the runs that are not dry runs
C18_NotDryRun == ~dry_run => C18_LookupFindsEntries

\* the ids filed in an index (by_language or by_topic)
Filed(index) == UNION { { index[c][j] : j \in 1..Len(index[c]) } : c \in DOMAIN index }

\* C19: every recorded id is filed in by_language and in by_topic at least
\* once: under its language and each of its topics, or under the sentinel
\* category "Unknown" when the descriptor has no language or no topic.
C19_EveryIdCategorized ==
  \A id \in DOMAIN Entries :
    /\ id \in Filed(manifest.by_language)
    /\ id \in Filed(manifest.by_topic)
    /\ Entries[id].language = None =>
         "Unknown" \in DOMAIN manifest.by_language
    /\ \A j \in 1..Len(Entries[id].topics) :
         Entries[id].topics[j] \in DOMAIN manifest.by_topic

\* C20: when run_backup is given the limit M >= 0, the repositories the loop
\* is entered with are the first M of the catalog (all of it when it is
\* shorter), so at most M are processed, for M = 0 too.
C20_LimitTakesFirstM ==
  [][pc = "fetched" /\ pc' = "loop" /\ max_repos # <<>> =>
       /\ Len(starred_repos') <= max_repos[1]
       /\ starred_repos' =
            SubSeq(catalog, 1, IF max_repos[1] < Len(catalog) THEN max_repos[1]
                               ELSE Len(catalog))]_vars

\* the same for the limits M >= 1
C20_PositiveLimit ==
  [][pc = "fetched" /\ pc' = "loop" /\ max_repos # <<>> /\ max_repos # <<0>> =>
       /\ Len(starred_repos') <= max_repos[1]
       /\ starred_repos' =
            SubSeq(catalog, 1, IF max_repos[1] < Len(catalog) THEN max_repos[1]
                               ELSE Len(catalog))]_vars

\* the loop of a non-dry run has ended (before or after save_manifest)
Completed == pc \in {"save", "done"} /\ ~dry_run /\ i > 0

\* C21: at the end of a completed non-dry run the archive named by the
\* zip_filename of every entry whose status is success is in the bucket.
C21_SuccessArchivesPresent ==
  Completed =>
    \A id \in DOMAIN Entries :
      Entries[id].backup_status = "success" =>
        Entries[id].zip_filename \in DOMAIN bucket

\* C22: delete_object calls are issued only after the zip succeeded; every
\* matched object gets its call, in the order of the match, whichever of the
\* calls raise; and the upload is the call after the last delete.
C22_DeletesBestEffort ==
  ~dry_run /\ pc \notin {"save", "done"} =>
    /\ \A j \in 1..Len(ops) :
         ops[j].op = "delete" => j > 3 /\ ops[3].op = "zip" /\ ops[3].ok
    /\ (pc = "upload" \/ (Returned /\ LastOp.op = "upload")) =>
         LET n == Len(existing_check.all) IN
           /\ Len(ops) = 3 + n + (IF pc = "upload" THEN 0 ELSE 1)
           /\ \A j \in 1..n :
                ops[3 + j].op = "delete" /\ ops[3 + j].key = existing_check.all[j].filename

\* two matched objects: the first delete raised, the second was issued and
\* succeeded, and the upload followed
C22_Witness ==
  /\ Returned /\ LastOp.op = "upload"
  /\ Len(ops) = 6
  /\ ops[4].op = "delete" /\ ~ops[4].ok
  /\ ops[5].op = "delete" /\ ops[5].ok

\* C23: when the upload fails after the zip succeeded the entry recorded is
\* failed_upload, the new archive is not stored, every matched object got its
\* delete call before the upload and the ones deleted are not in the bucket.
C23_FailedUploadAfterDelete ==
  ReturnedFailedUpload =>
    /\ Entries[repo_id].backup_status = "failed_upload"
    /\ ops[3].op = "zip" /\ ops[3].ok
    /\ \A k \in MatchedKeys : DeleteIssued(k)
    /\ \A k \in MatchedKeys : DeleteSucceeded(k) => k \notin DOMAIN bucket
    /\ ZipName(repo_id) \in DOMAIN bucket => ~DeleteSucceeded(ZipName(repo_id))

\* the first repository of the run had backups in the bucket when the run
\* began and has no archive left after its upload failed
C23_Witness ==
  /\ ReturnedFailedUpload /\ i = 2
  /\ MatchedKeys # {} /\ MatchedKeys \subseteq DOMAIN bucket0
  /\ LegacySchemeKeys(LastRepo) = {}

\* C24: a run deletes or rewrites no object of the bucket other than a prior
\* manifest and the objects whose key ends with the current or the legacy
\* suffix of a repository the run has reached: every other object is in the
\* bucket with the LastModified it had when the run began, whatever steps
\* failed
Touched == { k \in DOMAIN bucket0 : k \notin DOMAIN bucket \/ bucket[k] # bucket0[k] }

Reached == { starred_repos[j].full_name : j \in { n \in 1..Len(starred_repos) : n <= i } }

C24_OnlyMatchedObjectsDeleted ==
  \A k \in Touched :
    \/ IsManifestKey(k)
    \/ \E name \in Reached :
         EndsWith(k, CurrentSuffix(name)) \/ EndsWith(k, LegacySuffix(name))

C24_Witness ==
  /\ pc = "done" /\ ~dry_run
  /\ "20231201_r.zip" \in Touched
  /\ "manifest_backup_20240101_000000.json" \in Touched
  /\ ForeignKey \in DOMAIN bucket /\ ForeignKey \notin Touched
  /\ \E k \in DOMAIN bucket0 : EndsWith(k, ".zip") /\ k \notin Touched

\* C25 as stated: a non-dry run over at least one repository has stored its
\* manifest exactly once when it ends
ManifestUploads == { j \in 1..Len(ops) : ops[j].op = "upload" }

C25_AsStated ==
  Saved => Cardinality({ j \in ManifestUploads : ops[j].ok }) = 1

\* C25: in a non-dry run over at least one repository save_manifest is
\* entered once, after every repository has been counted as succeeded or
\* failed, and also when none succeeded; it makes at most one upload call, of
\* manifest_{backup_id}.json, as its last call, after the listing and the
\* deletes of prior manifests; the manifest is stored iff that call is made
\* and succeeds; no call on an archive follows
C25_SaveOnceAfterLoop ==
  /\ pc = "loop" /\ ~dry_run /\ i > Len(starred_repos) => ENABLED LoopEnd
  /\ pc = "save" =>
       /\ ~dry_run /\ Len(starred_repos) >= 1 /\ i = Len(starred_repos) + 1
       /\ success_count + Len(failed_repos) = Len(starred_repos)
       /\ ops = <<>>
  /\ Saved =>
       /\ i = Len(starred_repos) + 1
       /\ ops # <<>> /\ ops[1].op = "list"
       /\ \A j \in 2..Len(ops) :
            \/ ops[j].op = "delete" /\ IsManifestKey(ops[j].key)
            \/ ops[j].op = "upload" /\ j = Len(ops) /\ ops[j].key = ManifestName(manifest)
       /\ (LastOp.op = "upload" /\ LastOp.ok) <=>
            (ManifestName(manifest) \in DOMAIN bucket /\ bucket[ManifestName(manifest)] = now)
       /\ ~ENABLED Next

C25_Witness ==
  /\ Saved /\ Len(starred_repos) = 2 /\ success_count = 0
  /\ Len(ops) = 3 /\ ops[2].op = "delete" /\ ops[2].ok
  /\ LastOp.op = "upload" /\ LastOp.ok

\* C26: at every point of a non-dry run from the first iteration on,
\* success_count plus the length of failed_repos is the number of repositories
\* processed so far, success_count is the number of them recorded as success,
\* and failed_repos is the names, in catalog order, of those recorded as
\* failed_clone, failed_zip or failed_upload; at the summary every repository of
\* the limited catalog is among the processed
StatusOf(repo) == Entries[CHOOSE id \in EntriesOf(repo) : TRUE].backup_status

ProcessedSoFar == [j \in 1..(i - 1) |-> starred_repos[j]]

IsFailure(repo) == StatusOf(repo) \in {"failed_clone", "failed_zip", "failed_upload"}

C26_CountsAccountForProcessed ==
  ~dry_run /\ i >= 1 =>
    LET failed == SelectSeq(ProcessedSoFar, IsFailure)
    IN /\ success_count + Len(failed_repos) = i - 1
       /\ success_count =
            Cardinality({ j \in 1..(i - 1) : StatusOf(starred_repos[j]) = "success" })
       /\ failed_repos = [j \in 1..Len(failed) |-> failed[j].name]
       /\ pc = "done" => Len(ProcessedSoFar) = Len(starred_repos)

C26_Witness ==
  /\ pc = "done" /\ ~dry_run /\ Len(starred_repos) = 2
  /\ StatusOf(starred_repos[1]) = "success"
  /\ StatusOf(starred_repos[2]) = "failed_upload"
  /\ success_count = 1 /\ failed_repos = <<starred_repos[2].name>>

\* C27: the loop of get_starred_repos asks for the pages in order, each request
\* either ending the loop or moving to the next page, and never asks beyond
\* the first empty page; when a page comes back empty the loop ends with the
\* repositories of all pages before it, in page order; when a request raises
\* the loop ends with the repositories of the pages before that request; and
\* run_backup limits and processes a non-empty result to the end in the same
\* way whichever of the two ended the loop
PagesBefore(account, page) ==
  SubSeq(account, 1,
         IF (page - 1) * PerPage < Len(account) THEN (page - 1) * PerPage
         ELSE Len(account))

PagesCollected ==
  /\ pc \in {"page", "fetched"} =>
       /\ fetch.page \in 1..(NumPages(fetch.account) + 1)
       /\ catalog = PagesBefore(fetch.account, fetch.page)
  /\ pc = "fetched" /\ fetch.kind = "complete" =>
       /\ fetch.page = NumPages(fetch.account) + 1
       /\ catalog = fetch.account
  /\ pc = "fetched" /\ fetch.kind = "page_error" =>
       catalog = Collected(fetch.account, fetch.page)
  /\ pc = "done" /\ i > 0 =>
       /\ i = Len(starred_repos) + 1
       /\ starred_repos # <<>>
       /\ starred_repos = SubSeq(catalog, 1, Len(starred_repos))

PagesStep ==
  /\ pc = "page" =>
       \/ pc' = "fetched" /\ fetch'.page = fetch.page
       \/ pc' = "page" /\ fetch'.page = fetch.page + 1
                       /\ Page(fetch.account, fetch.page) # <<>>
  /\ pc = "fetched" =>
       /\ pc' = IF catalog = <<>> THEN "done" ELSE "loop"
       /\ pc' = "loop" => starred_repos' = Limit(catalog, max_repos) /\ i' = 1

C27_PagesInOrderPartialOnError == [](PagesCollected) /\ [][PagesStep]_vars

C27_Witness ==
  /\ pc = "fetched" /\ fetch.kind = "page_error"
  /\ fetch.page = 2 /\ Len(fetch.account) = 2
  /\ catalog = <<fetch.account[1]>>

\* C28: after the second of two failure-free non-dry runs over the same
\* catalog (pairwise distinct short names) on one calendar day, the bucket
\* holds the archive keys it held after the first run, and for every
\* repository of the catalog exactly one archive, under the key of its
\* same-day id
ArchiveKeys(b) == { k \in DOMAIN b : EndsWith(k, ".zip") }

C28_RerunIdempotent ==
  pc = "done" /\ fetch = SecondRun =>
    /\ ArchiveKeys(bucket) = ArchiveKeys(bucket0)
    /\ \A j \in 1..Len(catalog) :
         { k \in DOMAIN bucket : EndsWith(k, CurrentSuffix(catalog[j].full_name)) }
           = { ZipName(generate_repo_id(catalog[j].full_name, catalog[j].clone_url, now)) }

====
